---- MODULE Spec2Model ----
(***************************************************************************)
(* Model of listenbrainz/timescale_writer/timescale_writer.py:             *)
(* TimescaleWriterSubscriber, the consumer that takes batches of listens   *)
(* from the incoming RabbitMQ queue, looks them up in MessyBrainz, inserts *)
(* them into the listen store, republishes the rows the store reports as   *)
(* newly inserted to the unique exchange and acks the incoming message.    *)
(*                                                                         *)
(* Strings are sequences of one-character strings, so that the '%d-%s-%s'  *)
(* key of insert_to_listenstore is computed as the code computes it.       *)
(***************************************************************************)
EXTENDS Integers, Sequences, FiniteSets, TLC

\* ---------------------------------------------------------------- bounds
\* messages the producer puts on the incoming queue
MaxMsgs == 2
\* records in one message body
MaxBatch == 3
\* times the broker connection is lost
MaxDrops == 1
\* the monotonic clock stops advancing after this value
MaxTime == 130
\* seconds by which the clock advances in one Tick
TickStep == 61
\* times the process is started again after it ended
MaxRestarts == 1

\* ------------------------------------------------------ program constants
METRIC_UPDATE_INTERVAL == 60
LISTEN_INSERT_ERROR_SENTINEL == -1
\* imported from listenbrainz.webserver.views.api_tools; scaled down so that a
\* body of MaxBatch records is split into more than one chunk
MAX_ITEMS_PER_MESSYBRAINZ_LOOKUP == 2

\* ------------------------------------------------------------------ data
Min(a, b) == IF a < b THEN a ELSE b

RECURSIVE SumSeq(_)
SumSeq(s) == IF s = <<>> THEN 0 ELSE Head(s) + SumSeq(Tail(s))

\* a raw record of a message body (track and user names may contain the '-'
\* the key is joined with): the fields of the listen that the writer
\* reads, and whether Listen.from_json accepts it (valid) or raises ValueError
Raw(ts, track, user, valid) ==
    [listened_at |-> ts, track_name |-> track, user_name |-> user, valid |-> valid]

\* the listens the producers send, in the order they come in a body
RawUniverse ==
    << Raw(1, <<"a", "-", "b">>, <<"c">>, TRUE),
       Raw(1, <<"a">>, <<"b", "-", "c">>, TRUE),
       Raw(2, <<"a">>, <<"c">>, TRUE),
       Raw(2, <<"a", "-", "b">>, <<"c">>, FALSE) >>

RECURSIVE Pick(_, _)
\* the records of RawUniverse at the positions in picked, in order from position i
Pick(picked, i) ==
    IF i > Len(RawUniverse) THEN <<>>
    ELSE (IF i \in picked THEN <<RawUniverse[i]>> ELSE <<>>) \o Pick(picked, i + 1)

\* the (timestamp, track_name, user_name) rows the listen store may report
Rows == {<<1, <<"a", "-", "b">>, <<"c">>>>,
         <<1, <<"a">>, <<"b", "-", "c">>>>,
         <<2, <<"a">>, <<"c">>>>}

\* a message body: a JSON list of raw records, or text ujson.loads rejects
Body(wellformed, records) == [wellformed |-> wellformed, records |-> records]
Malformed == Body(FALSE, <<>>)
Bodies ==
    {Body(TRUE, Pick(picked, 1)) :
        picked \in {q \in SUBSET (1..Len(RawUniverse)) : Cardinality(q) <= MaxBatch}}
        \cup {Malformed}

\* Listen.from_json
Listen(raw) ==
    [ts_since_epoch |-> raw.listened_at, track_name |-> raw.track_name,
     user_name |-> raw.user_name]

\* the row of the listen store a Listen is stored as
RowOf(listen) == <<listen.ts_since_epoch, listen.track_name, listen.user_name>>

DigitChars == <<"0", "1", "2", "3", "4", "5", "6", "7", "8", "9">>

\* '%d' % n, n >= 0
RECURSIVE FormatD(_)
FormatD(n) ==
    IF n < 10 THEN <<DigitChars[n + 1]>>
    ELSE FormatD(n \div 10) \o <<DigitChars[(n % 10) + 1]>>

\* '%d-%s-%s' % (ts, track_name, user_name)
Key(ts, track, user) == FormatD(ts) \o <<"-">> \o track \o <<"-">> \o user

\* inserted_index: the keys of the rows the store reported
InsertedIndex(rows) == {Key(r[1], r[2], r[3]) : r \in rows}

RECURSIVE SelectSeq2(_, _)
SelectSeq2(s, index) ==
    IF s = <<>> THEN <<>>
    ELSE LET l == Head(s)
             k == Key(l.ts_since_epoch, l.track_name, l.user_name)
         IN  (IF k \in index THEN <<l>> ELSE <<>>) \o SelectSeq2(Tail(s), index)

RECURSIVE ListensOfRows(_)
ListensOfRows(rows) ==
    IF rows = {} THEN <<>>
    ELSE LET r == CHOOSE x \in rows : TRUE
         IN  <<[ts_since_epoch |-> r[1], track_name |-> r[2], user_name |-> r[3]]>>
                 \o ListensOfRows(rows \ {r})

\* Unique with a slip: the listens are rebuilt from the reported rows
UniqueFromRows(data, rows) == ListensOfRows(rows)

\* the listens of data whose key is in the index of the reported rows
Unique(data, rows) == SelectSeq2(data, InsertedIndex(rows))

\* chunked(listens, n): the i-th chunk, and the number of chunks
Chunk(records, i, n) == SubSeq(records, (i - 1) * n + 1, Min(i * n, Len(records)))
NumChunks(records, n) == (Len(records) + n - 1) \div n

\* what MessyBrainz answers for one chunk: the call raises (failed), or it
\* returns one entry per record, ids[i] telling whether the entry carries
\* both recording_msid and artist_msid
LookupResponses(k) ==
    {[failed |-> TRUE, ids |-> <<>>]} \cup {[failed |-> FALSE, ids |-> f] : f \in [1..k -> BOOLEAN]}

\* MessybrainzLookup with a slip: a chunk whose call raised is kept as it is
KeepOnFailure(chunk, resp) ==
    IF resp.failed THEN chunk
    ELSE IF \E i \in 1..Len(chunk) : ~resp.ids[i] THEN <<>>
    ELSE chunk

\* messybrainz_lookup(chunk): [] when the call raised, [] as soon as one
\* response lacks a mandatory id, else every listen of the chunk
MessybrainzLookup(chunk, resp) ==
    IF resp.failed THEN <<>>
    ELSE IF \E i \in 1..Len(chunk) : ~resp.ids[i] THEN <<>>
    ELSE chunk

\* Extend with a slip: assignment where extend was meant
Overwrite(msb, augmented) == augmented

\* msb_listens.extend(...)
Extend(msb, augmented) == msb \o augmented

RECURSIVE FromJson(_)
\* the loop over msb_listens: Listen.from_json, dropping what raises ValueError
FromJson(msb) ==
    IF msb = <<>> THEN <<>>
    ELSE (IF Head(msb).valid THEN <<Listen(Head(msb))>> ELSE <<>>) \o FromJson(Tail(msb))

\* ShouldAck with a slip: the sentinel check is lost
AlwaysAck(r) == TRUE

\* callback acks unless insert_to_listenstore returned the sentinel
ShouldAck(r) == r # LISTEN_INSERT_ERROR_SENTINEL

\* AcceptedCount with a slip: the number of rows of an empty response
AcceptedNone(data) == 0

\* the count insert_to_listenstore returns for an accepted batch
AcceptedCount(data) == Len(data)

\* NothingUnique with a slip: the early return is taken always
NeverPublish(u) == TRUE

\* the check that lets insert_to_listenstore go on to publish
NothingUnique(u) == u = <<>>

\* ResetCounters with a slip: unique_listens is not reset
ResetIncomingOnly(incoming, uniq) == [incoming_listens |-> 0, unique_listens |-> uniq]

\* the two totals after a flush
ResetCounters(incoming, uniq) == [incoming_listens |-> 0, unique_listens |-> 0]

\* the deadline after a flush
NextDeadline(deadline) == deadline + METRIC_UPDATE_INTERVAL

\* the flush condition
DeadlinePassed(t, deadline) == t > deadline

\* ----------------------------------------------------------------- state
VARIABLES
    pc,                      \* where the consumer thread is
    abortCause,              \* the call whose exception ended start()'s loop
    connection,              \* self.connection: "none", "open" or "closed"
    incoming_ch,             \* self.incoming_ch: "none", "current" (a channel of
                             \* self.connection) or "stale" (of an earlier one)
    unique_ch,               \* self.unique_ch, likewise
    drops,                   \* connection losses so far
    msgState,                \* broker: "queued", "unacked", "requeued", "acked"
    msgBody,                 \* broker: body of each message once it is known
    method,                  \* delivery tag (message id) callback was called with
    listens,                 \* callback: ujson.loads(body)
    chunk_no,                \* callback: the chunk the lookup loop is at
    msb_listens,             \* callback: what the lookups returned so far
    submit,                  \* callback: the parsed listens, insert's data
    rows_inserted,           \* insert_to_listenstore: what ls.insert returned
    unique,                  \* insert_to_listenstore: the reconciled listens
    ret,                     \* callback: <<>> or <<value insert returned>>
    incoming_listens,        \* self.incoming_listens
    unique_listens,          \* self.unique_listens
    metric_submission_time,  \* self.metric_submission_time
    now,                     \* monotonic()
    lookups,                 \* this delivery: MessyBrainz' answer per chunk
    inserted,                \* this delivery: "no", "ok" or "error" of ls.insert
    published,               \* this delivery: bodies sent to the unique exchange
    recent_updated,          \* this delivery: update_recent_listens succeeded
    side_failed,             \* this delivery: best-effort calls that raised
    acked,                   \* this delivery: basic_ack succeeded
    metrics_sink,            \* what metrics.set was called with, in order
    batches,                 \* counts added to the totals since the last flush
    store,                   \* listen store: the rows it is known to hold
    owed,                    \* rows the store reported as newly inserted that
                             \* have not been sent to the unique exchange since
    restarts                 \* times the process was started again

vars == <<pc, abortCause, connection, incoming_ch, unique_ch, drops, msgState,
          msgBody, method, listens, chunk_no, msb_listens, submit, rows_inserted,
          unique, ret, incoming_listens, unique_listens, metric_submission_time,
          now, lookups, inserted, published, recent_updated, side_failed, acked,
          metrics_sink, batches, store, owed, restarts>>

conn_vars == <<connection, incoming_ch, unique_ch, drops>>
broker_vars == <<msgState, msgBody>>
callback_vars == <<method, listens, chunk_no, msb_listens, submit, rows_inserted,
                   unique, ret>>
counter_vars == <<incoming_listens, unique_listens, metric_submission_time,
                  metrics_sink, batches>>
delivery_vars == <<lookups, inserted, published, recent_updated, side_failed,
                   acked>>
store_vars == <<store, owed, restarts>>

Msgs == 1..MaxMsgs

\* a channel works while it belongs to the current connection and that is open
Alive(ch) == ch = "current" /\ connection = "open"

\* __init__, and a queue the producers have filled
Init ==
    /\ pc = "connect"
    /\ abortCause = "none"
    /\ connection = "none"
    /\ incoming_ch = "none"
    /\ unique_ch = "none"
    /\ drops = 0
    /\ msgState = [m \in Msgs |-> "queued"]
    /\ msgBody = [m \in Msgs |-> Body(TRUE, <<>>)]
    /\ method = 0
    /\ listens = <<>>
    /\ chunk_no = 1
    /\ msb_listens = <<>>
    /\ submit = <<>>
    /\ rows_inserted = {}
    /\ unique = <<>>
    /\ ret = <<>>
    /\ incoming_listens = 0
    /\ unique_listens = 0
    /\ now = 0
    /\ metric_submission_time = now + METRIC_UPDATE_INTERVAL
    /\ lookups = <<>>
    /\ inserted = "no"
    /\ published = <<>>
    /\ recent_updated = FALSE
    /\ side_failed = {}
    /\ acked = FALSE
    /\ metrics_sink = <<>>
    /\ batches = <<>>
    /\ store = {}
    /\ owed = {}
    /\ restarts = 0

\* --------------------------------------------------------------- actions
Range(s) == {s[i] : i \in 1..Len(s)}

\* the rows the listens of a batch are stored as
RowsOf(data) == {RowOf(data[i]) : i \in 1..Len(data)}

Deliverable == {m \in Msgs : msgState[m] \in {"queued", "requeued"}}

\* connect_to_rabbitmq: self.connection is replaced by a new open connection;
\* the channel attributes are not touched, so they now belong to the old one
ConnectToRabbitmq ==
    /\ connection' = "open"
    /\ incoming_ch' = IF incoming_ch = "none" THEN "none" ELSE "stale"
    /\ unique_ch' = IF unique_ch = "none" THEN "none" ELSE "stale"

\* an exception nothing inside the loop of start() catches: the outer
\* "except Exception" logs it and start() returns
Abort(cause) ==
    /\ pc' = "stopped"
    /\ abortCause' = cause

\* insert_to_listenstore returns r to callback, which returns at once on the
\* sentinel and otherwise goes on to the ack loop
ReturnToCallback(r) ==
    /\ ret' = <<r>>
    /\ pc' = IF ShouldAck(r) THEN "ack" ELSE "returned"

\* start(): one turn of the connection loop up to start_consuming
StartLoop ==
    /\ pc = "connect"
    /\ connection' = "open"
    /\ incoming_ch' = "current"
    /\ unique_ch' = "current"
    /\ pc' = "consuming"
    /\ UNCHANGED <<abortCause, drops, broker_vars, callback_vars, counter_vars,
                   incoming_listens, unique_listens, now, delivery_vars>>
    /\ UNCHANGED store_vars

\* start(): start_consuming ends because the channel it consumes on is gone;
\* the loop goes round
ConsumeConnectionClosed ==
    /\ pc = "consuming"
    /\ ~Alive(incoming_ch)
    /\ connection' = "none"
    /\ pc' = "connect"
    /\ UNCHANGED <<abortCause, incoming_ch, unique_ch, drops, broker_vars,
                   callback_vars, counter_vars, now, delivery_vars>>
    /\ UNCHANGED store_vars

\* the broker hands the next message to callback, which deserializes it
Deliver ==
    /\ pc = "consuming"
    /\ Alive(incoming_ch)
    /\ Deliverable # {}
    /\ LET m == CHOOSE x \in Deliverable : \A y \in Deliverable : x <= y
       IN  \E b \in Bodies :
             /\ msgState[m] = "requeued" => b = msgBody[m]
             /\ msgState' = [msgState EXCEPT ![m] = "unacked"]
             /\ msgBody' = [msgBody EXCEPT ![m] = b]
             /\ method' = m
             /\ listens' = b.records
             /\ IF ~b.wellformed
                THEN Abort("ujson.loads")
                ELSE /\ pc' = IF NumChunks(b.records, MAX_ITEMS_PER_MESSYBRAINZ_LOOKUP) = 0
                              THEN "insert" ELSE "lookup"
                     /\ UNCHANGED abortCause
    /\ chunk_no' = 1
    /\ msb_listens' = <<>>
    /\ submit' = <<>>
    /\ rows_inserted' = {}
    /\ unique' = <<>>
    /\ ret' = <<>>
    /\ lookups' = <<>>
    /\ inserted' = "no"
    /\ published' = <<>>
    /\ recent_updated' = FALSE
    /\ side_failed' = {}
    /\ acked' = FALSE
    /\ UNCHANGED <<conn_vars, counter_vars, now>>
    /\ UNCHANGED store_vars

\* callback: messybrainz_lookup of one chunk
LookupChunk ==
    /\ pc = "lookup"
    /\ LET chunk == Chunk(listens, chunk_no, MAX_ITEMS_PER_MESSYBRAINZ_LOOKUP)
       IN  \E resp \in LookupResponses(Len(chunk)) :
             /\ msb_listens' = Extend(msb_listens, MessybrainzLookup(chunk, resp))
             /\ lookups' = Append(lookups, resp)
    /\ chunk_no' = chunk_no + 1
    /\ pc' = IF chunk_no = NumChunks(listens, MAX_ITEMS_PER_MESSYBRAINZ_LOOKUP)
             THEN "insert" ELSE "lookup"
    /\ UNCHANGED <<abortCause, conn_vars, broker_vars, method, listens, submit,
                   rows_inserted, unique, ret, counter_vars, now, inserted,
                   published, recent_updated, side_failed, acked>>
    /\ UNCHANGED store_vars

\* callback: the parsing loop, and insert_to_listenstore up to the check of
\* what ls.insert returned. The store deduplicates: it reports as newly
\* inserted only rows it did not hold, and holds the whole batch afterwards
Insert ==
    /\ pc = "insert"
    /\ LET data == FromJson(msb_listens)
       IN  /\ submit' = data
           /\ IF data = <<>>
              THEN /\ ReturnToCallback(0)
                   /\ UNCHANGED <<incoming_listens, batches, inserted, rows_inserted,
                                  store, owed>>
              ELSE /\ incoming_listens' = incoming_listens + Len(data)
                   /\ batches' = Append(batches, [submitted |-> Len(data), uniq |-> 0])
                   /\ \/ /\ inserted' = "error"
                         /\ ReturnToCallback(LISTEN_INSERT_ERROR_SENTINEL)
                         /\ UNCHANGED <<rows_inserted, store, owed>>
                      \/ \E rows \in SUBSET (Rows \ store) :
                           /\ inserted' = "ok"
                           /\ rows_inserted' = rows
                           /\ store' = store \cup rows \cup RowsOf(data)
                           /\ owed' = owed \cup (rows \cap RowsOf(data))
                           /\ IF rows = {}
                              THEN ReturnToCallback(AcceptedCount(data))
                              ELSE pc' = "daycount" /\ UNCHANGED ret
    /\ UNCHANGED <<abortCause, conn_vars, broker_vars, method, listens, chunk_no,
                   msb_listens, unique, unique_listens, metric_submission_time,
                   metrics_sink, now, lookups, published, recent_updated,
                   side_failed, acked, restarts>>

\* insert_to_listenstore: the daily listen count, then the reconciliation
DayCountAndReconcile ==
    /\ pc = "daycount"
    /\ \E ok \in BOOLEAN :
         side_failed' = IF ok THEN side_failed
                        ELSE side_failed \cup {"increment_listen_count_for_day"}
    /\ unique' = Unique(submit, rows_inserted)
    /\ IF NothingUnique(unique')
       THEN ReturnToCallback(AcceptedCount(submit))
       ELSE pc' = "publish" /\ UNCHANGED ret
    /\ UNCHANGED <<abortCause, conn_vars, broker_vars, method, listens, chunk_no,
                   msb_listens, submit, rows_inserted, counter_vars, now, lookups,
                   inserted, published, recent_updated, acked>>
    /\ UNCHANGED store_vars

\* insert_to_listenstore: one turn of the publish loop. On a channel that is
\* gone basic_publish raises: ConnectionClosed, which the loop answers with
\* connect_to_rabbitmq and another turn, or, on a channel of an earlier
\* connection, an exception of pika the loop does not catch
Publish ==
    /\ pc = "publish"
    /\ \/ /\ Alive(unique_ch)
          /\ published' = Append(published, unique)
          /\ owed' = owed \ RowsOf(unique)
          /\ pc' = "recent"
          /\ UNCHANGED <<abortCause, connection, incoming_ch, unique_ch>>
       \/ /\ ~Alive(unique_ch)
          /\ ConnectToRabbitmq
          /\ UNCHANGED <<pc, abortCause, published, owed>>
       \/ /\ unique_ch = "stale"
          /\ Abort("basic_publish")
          /\ UNCHANGED <<connection, incoming_ch, unique_ch, published, owed>>
    /\ UNCHANGED <<drops, broker_vars, callback_vars, counter_vars, now, lookups,
                   inserted, recent_updated, side_failed, acked, store, restarts>>

\* insert_to_listenstore: the recent-listens cache, the totals and the flush
RecentAndCounters ==
    /\ pc = "recent"
    /\ \/ /\ side_failed' = side_failed \cup {"update_recent_listens"}
          /\ Abort("update_recent_listens")
          /\ UNCHANGED <<ret, recent_updated, counter_vars>>
       \/ /\ recent_updated' = TRUE
          /\ LET total == unique_listens + Len(unique)
                 counted == [batches EXCEPT ![Len(batches)].uniq = Len(unique)]
             IN  IF DeadlinePassed(now, metric_submission_time)
                 THEN /\ metric_submission_time' = NextDeadline(metric_submission_time)
                      /\ metrics_sink' = Append(metrics_sink,
                             [incoming_listens |-> incoming_listens,
                              unique_listens |-> total])
                      /\ incoming_listens' = ResetCounters(incoming_listens, total).incoming_listens
                      /\ unique_listens' = ResetCounters(incoming_listens, total).unique_listens
                      /\ batches' = <<>>
                 ELSE /\ unique_listens' = total
                      /\ batches' = counted
                      /\ UNCHANGED <<incoming_listens, metric_submission_time, metrics_sink>>
          /\ ReturnToCallback(AcceptedCount(submit))
          /\ UNCHANGED <<abortCause, side_failed>>
    /\ UNCHANGED <<conn_vars, broker_vars, method, listens, chunk_no, msb_listens,
                   submit, rows_inserted, unique, now, lookups, inserted, published,
                   acked>>
    /\ UNCHANGED store_vars

\* callback: one turn of the ack loop; basic_ack raises as basic_publish does
Ack ==
    /\ pc = "ack"
    /\ \/ /\ Alive(incoming_ch)
          /\ msgState' = [msgState EXCEPT ![method] = "acked"]
          /\ msgBody' = [msgBody EXCEPT ![method] = Body(TRUE, <<>>)]
          /\ acked' = TRUE
          /\ pc' = "returned"
          /\ UNCHANGED <<abortCause, connection, incoming_ch, unique_ch>>
       \/ /\ ~Alive(incoming_ch)
          /\ ConnectToRabbitmq
          /\ UNCHANGED <<pc, abortCause, broker_vars, acked>>
       \/ /\ incoming_ch = "stale"
          /\ Abort("basic_ack")
          /\ UNCHANGED <<connection, incoming_ch, unique_ch, broker_vars, acked>>
    /\ UNCHANGED <<drops, callback_vars, counter_vars, now, lookups, inserted,
                   published, recent_updated, side_failed>>
    /\ UNCHANGED store_vars

\* callback returns to start_consuming; its locals are gone
CallbackReturn ==
    /\ pc = "returned"
    /\ pc' = "consuming"
    /\ method' = 0
    /\ listens' = <<>>
    /\ chunk_no' = 1
    /\ msb_listens' = <<>>
    /\ submit' = <<>>
    /\ rows_inserted' = {}
    /\ unique' = <<>>
    /\ ret' = <<>>
    /\ lookups' = <<>>
    /\ inserted' = "no"
    /\ published' = <<>>
    /\ recent_updated' = FALSE
    /\ side_failed' = {}
    /\ acked' = FALSE
    /\ UNCHANGED <<abortCause, conn_vars, broker_vars, counter_vars, now>>
    /\ UNCHANGED store_vars

\* the broker connection is lost; the broker requeues what was not acked
Drop ==
    /\ connection = "open"
    /\ drops < MaxDrops
    /\ pc \notin {"returned", "stopped"}
    /\ connection' = "closed"
    /\ drops' = drops + 1
    /\ msgState' = [m \in Msgs |-> IF msgState[m] = "unacked" THEN "requeued"
                                   ELSE msgState[m]]
    /\ UNCHANGED <<pc, abortCause, incoming_ch, unique_ch, msgBody, callback_vars,
                   counter_vars, now, delivery_vars>>
    /\ UNCHANGED store_vars

\* the monotonic clock advances. The clock is read in one place only (the
\* flush check of insert_to_listenstore), so when it advanced before that
\* read makes no difference: it advances between two callbacks
Tick ==
    /\ now + TickStep <= MaxTime
    /\ pc = "consuming"
    /\ now' = now + TickStep
    /\ UNCHANGED <<pc, abortCause, conn_vars, broker_vars, callback_vars,
                   counter_vars, delivery_vars>>
    /\ UNCHANGED store_vars

\* the process is killed inside insert_to_listenstore, after ls.insert has
\* returned rows and before basic_publish has sent them
Crash ==
    /\ pc \in {"daycount", "publish"}
    /\ restarts < MaxRestarts
    /\ pc' = "stopped"
    /\ abortCause' = "killed"
    /\ UNCHANGED <<conn_vars, broker_vars, callback_vars, counter_vars, now,
                   delivery_vars, store_vars>>

\* the process that ended is started again: a new TimescaleWriterSubscriber is
\* constructed and start() called. The connection of the old process is
\* gone, so the broker requeues what that process had not acked; the listen
\* store keeps its rows
Restart ==
    /\ pc = "stopped"
    /\ restarts < MaxRestarts
    /\ restarts' = restarts + 1
    /\ pc' = "connect"
    /\ abortCause' = "none"
    /\ connection' = "none"
    /\ incoming_ch' = "none"
    /\ unique_ch' = "none"
    /\ msgState' = [m \in Msgs |-> IF msgState[m] = "unacked" THEN "requeued"
                                   ELSE msgState[m]]
    /\ method' = 0
    /\ listens' = <<>>
    /\ chunk_no' = 1
    /\ msb_listens' = <<>>
    /\ submit' = <<>>
    /\ rows_inserted' = {}
    /\ unique' = <<>>
    /\ ret' = <<>>
    /\ incoming_listens' = 0
    /\ unique_listens' = 0
    /\ metric_submission_time' = now + METRIC_UPDATE_INTERVAL
    /\ batches' = <<>>
    /\ lookups' = <<>>
    /\ inserted' = "no"
    /\ published' = <<>>
    /\ recent_updated' = FALSE
    /\ side_failed' = {}
    /\ acked' = FALSE
    /\ UNCHANGED <<drops, msgBody, now, metrics_sink, store, owed>>

Next ==
    \/ StartLoop
    \/ ConsumeConnectionClosed
    \/ Deliver
    \/ LookupChunk
    \/ Insert
    \/ DayCountAndReconcile
    \/ Publish
    \/ RecentAndCounters
    \/ Ack
    \/ CallbackReturn
    \/ Drop
    \/ Tick

Spec == Init /\ [][Next]_vars

TypeOK ==
    /\ pc \in {"connect", "consuming", "lookup", "insert", "daycount", "publish",
               "recent", "ack", "returned", "stopped"}
    /\ connection \in {"none", "open", "closed"}
    /\ incoming_ch \in {"none", "current", "stale"}
    /\ unique_ch \in {"none", "current", "stale"}
    /\ msgState \in [Msgs -> {"queued", "unacked", "requeued", "acked"}]
    /\ ret \in {<<>>} \cup {<<r>> : r \in -1..MaxBatch}
    /\ inserted \in {"no", "ok", "error"}
    /\ incoming_listens >= 0 /\ unique_listens >= 0

\* ---------------------------------------------------------------- claims
Sentinel == <<LISTEN_INSERT_ERROR_SENTINEL>>

C2_AckAfterInsertAndPublish ==
    (pc = "ack" \/ acked) =>
        /\ inserted = "ok"
        /\ (unique = <<>> \/ published = <<unique>>)

\* C2 amended: the same, except that a batch left empty by enrichment and
\* parsing is acked without any insert.
C2_AckAfterInsertAndPublishUnlessEmpty ==
    (pc = "ack" \/ acked) =>
        /\ (submit = <<>> \/ inserted = "ok")
        /\ (unique = <<>> \/ published = <<unique>>)
        /\ (unique # <<>> => unique = Unique(submit, rows_inserted))

\* an acked message whose unique subset was published after the insert
C2_Witness ==
    /\ acked
    /\ inserted = "ok"
    /\ unique # <<>>
    /\ published = <<unique>>

\* C3: when ls.insert raised OperationalError for a non-empty batch,
\* insert_to_listenstore returned the sentinel, nothing was published, the
\* recent-listens cache was not updated, and callback returns without an ack.
C3_InsertErrorNoPublishNoAck ==
    inserted = "error" =>
        /\ submit # <<>>
        /\ ret = Sentinel
        /\ published = <<>>
        /\ ~recent_updated
        /\ ~acked
        /\ pc = "returned"
        /\ msgState[method] # "acked"

\* callback returned the sentinel for a batch of two listens
C3_Witness ==
    /\ inserted = "error"
    /\ pc = "returned"
    /\ Len(submit) = 2
    /\ msgState[method] = "unacked"

\* insert_to_listenstore has computed unique
Reconciled == inserted = "ok" /\ rows_inserted # {} /\ pc # "daycount"

\* C4: when the store reports rows of the input only, a listen of the input
\* is in unique exactly if its (timestamp, track_name, user_name) is one of
\* the rows the store reported.
C4_ReconciliationExact ==
    (Reconciled /\ rows_inserted \subseteq {RowOf(l) : l \in Range(submit)}) =>
        \A l \in Range(submit) : l \in Range(unique) <=> RowOf(l) \in rows_inserted

\* C5: every listen of every body published to the unique exchange is one of
\* the listens that were submitted to ls.insert for the same message.
C5_PublishedSubsetOfSubmitted ==
    /\ \A i \in 1..Len(published) : Range(published[i]) \subseteq Range(submit)
    /\ Range(unique) \subseteq Range(submit)

\* a published body that is a proper part of the batch submitted
C5_Witness ==
    /\ Len(published) = 1
    /\ published[1] # <<>>
    /\ Len(published[1]) < Len(submit)

ChunkOf(c) == Chunk(listens, c, MAX_ITEMS_PER_MESSYBRAINZ_LOOKUP)

\* C7: a record whose response carries both ids, in a chunk whose call did
\* not fail, is returned by messybrainz_lookup, whatever the responses for
\* the other records of the chunk.
C7_OnlyRecordWithoutIdsDropped ==
    \A c \in 1..Len(lookups) :
        ~lookups[c].failed =>
            \A i \in 1..Len(ChunkOf(c)) :
                lookups[c].ids[i] => ChunkOf(c)[i] \in Range(msb_listens)

\* the lookup of chunk c returned the ids of every record
LookedUp(c) == ~lookups[c].failed /\ \A i \in 1..Len(ChunkOf(c)) : lookups[c].ids[i]

\* callback has parsed msb_listens into submit
Parsed == pc \notin {"connect", "consuming", "lookup", "insert"} /\ method # 0
              /\ abortCause # "ujson.loads"

\* C8: the records of every chunk whose lookup succeeded are in msb_listens,
\* and those Listen.from_json accepts are submitted to insert_to_listenstore,
\* whatever happened to the other chunks; a failed lookup aborts nothing.
C8_SubBatchIsolation ==
    /\ \A c \in 1..Len(lookups) :
          LookedUp(c) =>
              \A i \in 1..Len(ChunkOf(c)) :
                  /\ ChunkOf(c)[i] \in Range(msb_listens)
                  /\ (Parsed /\ ChunkOf(c)[i].valid) =>
                         Listen(ChunkOf(c)[i]) \in Range(submit)
    /\ (\E c \in 1..Len(lookups) : lookups[c].failed) =>
          abortCause \in {"none", "basic_publish", "update_recent_listens", "basic_ack"}

\* the second chunk failed, the first was submitted and the store took it
C8_Witness ==
    /\ Len(lookups) = 2
    /\ LookedUp(1)
    /\ lookups[2].failed
    /\ Len(submit) = 2
    /\ inserted = "ok"

\* C9: a best-effort call that raises does not end the loop of start().
C9_SideChannelFailureSwallowed ==
    side_failed # {} =>
        abortCause \notin {"increment_listen_count_for_day", "update_recent_listens"}

SumSubmitted(bs) == SumSeq([i \in 1..Len(bs) |-> bs[i].submitted])
SumUniq(bs) == SumSeq([i \in 1..Len(bs) |-> bs[i].uniq])

\* C10: at every moment the two totals are what the batches since the last
\* flush added; a flush emits exactly these sums, once, and leaves both
\* totals at zero.
C10_CounterFlush ==
    /\ [](/\ incoming_listens = SumSubmitted(batches)
          /\ unique_listens = SumUniq(batches))
    /\ [][Len(metrics_sink') # Len(metrics_sink) =>
            /\ Len(metrics_sink') = Len(metrics_sink) + 1
            /\ SubSeq(metrics_sink', 1, Len(metrics_sink)) = metrics_sink
            /\ metrics_sink'[Len(metrics_sink')] =
                   [incoming_listens |-> SumSubmitted(batches),
                    unique_listens |-> SumUniq(batches) + Len(unique)]
            /\ incoming_listens' = 0
            /\ unique_listens' = 0
            /\ batches' = <<>>]_vars

\* a second flush, after a first one that emitted more than one batch
C10_Witness ==
    /\ Len(metrics_sink) = 2
    /\ metrics_sink[1].incoming_listens > MaxBatch
    /\ metrics_sink[2].unique_listens > 0
    /\ incoming_listens = 0
    /\ unique_listens = 0

\* C11: in the publish loop, once connect_to_rabbitmq has re-established the
\* connection, the publish is retried on a channel of that connection, and
\* the loop of start() is not ended by the retry.
C11_PublishRetriedOnFreshChannel ==
    /\ (pc = "publish" /\ connection = "open") => unique_ch = "current"
    /\ abortCause # "basic_publish"

\* C12: in the ack loop, once connect_to_rabbitmq has re-established the
\* connection, the ack can succeed: incoming_ch is a channel of that
\* connection, and the loop ends with the ack, not with the end of start().
C12_AckLoopTerminates ==
    /\ (pc = "ack" /\ connection = "open") => incoming_ch = "current"
    /\ abortCause # "basic_ack"

\* C14: a body that ujson.loads rejects does not end the loop of start().
C14_MalformedBodyNotFatal == abortCause # "ujson.loads"

\* the lookup of some chunk of this delivery raised
SomeLookupFailed == \E c \in 1..Len(lookups) : lookups[c].failed

C16_OneOutstandingMessage ==
    Cardinality({m \in Msgs : msgState[m] = "unacked"}) <= 1

\* C17: a step in which ls.insert raises OperationalError leaves both totals
\* as they were.
C17_FailedBatchAddsNothing ==
    [][inserted' = "error" =>
          /\ incoming_listens' = incoming_listens
          /\ unique_listens' = unique_listens]_vars

\* C18: when insert_to_listenstore returns for a batch the store accepted
\* and no flush has happened since the batch was counted, the deadline has
\* not passed; a flush moves the deadline by one METRIC_UPDATE_INTERVAL.
C18_FlushWheneverDeadlinePassed ==
    /\ []((pc \in {"ack", "returned"} /\ inserted = "ok" /\ batches # <<>>) =>
              ~DeadlinePassed(now, metric_submission_time))
    /\ [][Len(metrics_sink') # Len(metrics_sink) =>
              metric_submission_time' = metric_submission_time + METRIC_UPDATE_INTERVAL]_vars

\* C19: whenever the connection has been re-established after a loss, both
\* channels have been re-created on it, and no call on a channel of the lost
\* connection ends the loop of start().
C19_ConsumptionResumesAfterDisconnect ==
    /\ connection = "open" => (incoming_ch = "current" /\ unique_ch = "current")
    /\ abortCause \notin {"basic_publish", "basic_ack"}

\* the consumer on a connection that is never lost, the clock standing still
NextSteady ==
    \/ StartLoop
    \/ Deliver
    \/ LookupChunk
    \/ Insert
    \/ DayCountAndReconcile
    \/ Publish
    \/ RecentAndCounters
    \/ Ack
    \/ CallbackReturn

\* the consumer thread keeps running and the broker keeps delivering what it
\* can deliver; a store that is asked again and again accepts in the end
FairSteady ==
    /\ Init
    /\ [][NextSteady]_vars
    /\ WF_vars(NextSteady)
    /\ SF_vars(Insert /\ inserted' = "ok")

\* C13: a message for which insert_to_listenstore returned the sentinel is
\* acked in the end.
C13_FailedMessageAckedInTheEnd ==
    \A m \in Msgs :
        (pc = "returned" /\ method = m /\ inserted = "error" /\ ~acked)
            ~> (msgState[m] = "acked")

\* the consumer on a connection that is never lost, in a process that may be
\* killed between insert and publish and is started again when it has ended
NextRestart == NextSteady \/ Crash \/ Restart

SpecRestart == Init /\ [][NextRestart]_vars

\* C20: once every message is acked, so that none will be delivered again,
\* every row the store reported as newly inserted has been sent to the
\* unique exchange.
C20_ReportedRowsPublished ==
    (\A m \in Msgs : msgState[m] = "acked") => owed = {}

====
